---------------------------- MODULE Spec2Model ----------------------------
(***************************************************************************)
(* Fund subscription and balance engine of the BTG Pactual funds service   *)
(* (backend/funds-service/main.py) over its MongoDB collections            *)
(* (users, funds, user_subscriptions, transactions).                       *)
(*                                                                         *)
(* Money.  MongoDB stores balance and amounts as binary doubles; the       *)
(* handlers mix Decimal arithmetic with float arithmetic.  A number is     *)
(* modelled as an exact rational, written as an integer count of 1/Unit.   *)
(* A double is such a number with at most MantBits significant bits (the   *)
(* binary64 format with its 53-bit significand scaled down to MantBits),   *)
(* a Decimal is such a number that is a multiple of 10^-4.  Amounts are    *)
(* in units of 50 000 COP, so the initial balance 500 000 COP is 10.       *)
(*                                                                         *)
(* Concurrency.  Every request handler is a coroutine; each await of a     *)
(* database call is one atomic step of the store, and handlers interleave  *)
(* between their awaits.  None of the writes is given the session, so      *)
(* each one is applied on its own as soon as it is issued.                 *)
(***************************************************************************)
EXTENDS Integers, Sequences, FiniteSets, TLC

\* ------------------------------------------------------------------ bounds
MantBits == 8        \* bits of the significand of a double (53, scaled down)
MaxTx == 3           \* transactions documents the store holds at most
MaxSerialTx == 4     \* the same, when requests are served one at a time
MaxFaults == 1       \* store errors (a write that raises) in one run
Minute == 3          \* clock ticks in one minute
MaxTime == 5         \* clock ticks a run of the rate limiter lasts
rate_limit_per_minute == 2  \* settings.rate_limit_per_minute (60, scaled down)

\* ----------------------------------------------------------------- numbers
\* 1/Unit is the grain of all numbers: 2^-11 (the smallest step between two
\* doubles) and 10^-4 (the smallest step between two Decimals) divide it.
Unit == 2048 * 10000
MinStep == Unit \div 2048

RECURSIVE Pow2(_)
Pow2(n) == IF n = 0 THEN 1 ELSE 2 * Pow2(n - 1)

RECURSIVE Pow10(_)
Pow10(n) == IF n = 0 THEN 1 ELSE 10 * Pow10(n - 1)

\* a Decimal literal units.tenths
D(units, tenths) == units * Unit + tenths * (Unit \div 10)

\* the step between neighbouring doubles around v: the smallest
\* MinStep * 2^j with v < step * 2^MantBits
RECURSIVE SpacingFrom(_, _)
SpacingFrom(v, sp) ==
    IF v \div Pow2(MantBits) < sp THEN sp ELSE SpacingFrom(v, 2 * sp)

Spacing(v) == SpacingFrom(v, MinStep)

\* the double nearest to the number v >= 0, ties to the even significand
RoundHalfEven(v) ==
    LET sp == Spacing(v)
        q  == v \div sp
        r  == v % sp
    IN  IF 2 * r < sp THEN q * sp
        ELSE IF 2 * r > sp THEN (q + 1) * sp
        ELSE IF q % 2 = 0 THEN q * sp ELSE (q + 1) * sp

\* float(d): the double nearest to the number v
FloatOf(v) == IF v < 0 THEN 0 - RoundHalfEven(0 - v) ELSE RoundHalfEven(v)

\* the decimals with k fractional digits next to f that read back as f
RoundTrips(f, k) ==
    LET g  == Unit \div Pow10(k)
        lo == (f \div g) * g
    IN  {c \in {lo, lo + g} : FloatOf(c) = f}

\* str of a double f >= 0 read as a Decimal: str gives the shortest decimal
\* string that reads back as f, the one nearest to f among those of that
\* length (of two equally near, the one with the even last digit)
RECURSIVE ShortestFrom(_, _)
ShortestFrom(f, k) ==
    LET g  == Unit \div Pow10(k)
        cs == RoundTrips(f, k)
        Dist(c) == IF c > f THEN c - f ELSE f - c
    IN  IF cs # {}
        THEN CHOOSE c \in cs : \A d \in cs \ {c} :
                 \/ Dist(c) < Dist(d)
                 \/ Dist(c) = Dist(d) /\ (c \div g) % 2 = 0
        ELSE ShortestFrom(f, k + 1)

ShortestDecimal(f) == ShortestFrom(f, 0)

\* Decimal(str(f))
DecimalOfStr(f) == IF f < 0 THEN 0 - ShortestDecimal(0 - f) ELSE ShortestDecimal(f)

\* a + b on doubles: the exact sum, rounded to a double
FloatAdd(a, b) == FloatOf(a + b)

\* ------------------------------------------------------------- collections
Users == {"u1"}                  \* accounts registered by the auth service
Procs == {"h1", "h2"}            \* request handlers that can be running at once
FundIds == {1, 2, 3, 4}          \* fund ids a request can name
Catalog == {1, 2, 3}             \* fund ids of the documents in funds
Amounts == {D(2, 1), D(5, 2)}          \* amounts a subscription request can carry

\* balance a new account is registered with (settings.initial_balance,
\* 500 000 COP, in units of 50 000 COP)
initial_balance == 10

VARIABLES
    funds,          \* funds collection: fund_id -> document
    balance,        \* users collection: the "balance" field of each account
    subscriptions,  \* user_subscriptions collection: a set of documents
    transactions,   \* transactions collection, in insertion order
    next_oid,       \* the _id the store gives the next subscription document
    h,              \* per handler: its position and its local variables
    hist,           \* per handler: the account as it was when the request began
    overlapped,     \* per account: two of its requests have been in flight at once
    faults,         \* store errors so far
    timed,          \* whether the run follows the loop time (see LoopTime)
    now,            \* datetime.utcnow(), in ticks
    requests,       \* rate_limiter.requests: per user id, the times admitted
    preference,     \* users collection: the "notification_preference" field
    notifications,  \* notifications collection, in insertion order
    task            \* the notification service's background task

vars == <<funds, balance, subscriptions, transactions, next_oid, h, hist, overlapped,
          faults, timed, now, requests, preference, notifications, task>>

\* the rate limiter of the process
limiter == <<now, requests>>

\* what the handlers of the funds service never write
other == <<timed, limiter, preference, notifications, task>>

store == <<funds, balance, subscriptions, transactions, next_oid>>

Idle == [pc |-> "idle", kind |-> "none", user_id |-> "none", fund_id |-> 0,
         amount |-> 0, user_balance |-> 0, sub_id |-> 0, sub_amount |-> 0,
         created_at |-> 0, total_invested |-> 0, listing |-> <<>>,
         result |-> "none"]

NoHist == [balance |-> 0, subs |-> {}, ntx |-> 0, solo |-> TRUE]

\* what is kept of a request that ran while another request of the same
\* account was in flight: only that fact
Overlapping == [NoHist EXCEPT !.solo = FALSE]

\* the background task of the notification service when it has nothing to do
NoTask == [pc |-> "idle", user_id |-> "none", type |-> "none", id |-> 0, success |-> FALSE]

InFlight(p) == h[p].pc \notin {"idle", "done"}

\* the transactions documents of account u, in insertion order
RECURSIVE TxOf(_, _)
TxOf(txs, u) ==
    IF txs = <<>> THEN <<>>
    ELSE IF Head(txs).user_id = u THEN <<Head(txs)>> \o TxOf(Tail(txs), u)
    ELSE TxOf(Tail(txs), u)

\* the same query with the is_active flag the wrong way round
InactiveSubs(u, f) ==
    {s \in subscriptions : s.user_id = u /\ s.fund_id = f /\ ~s.is_active}

\* find({"user_id": u, "fund_id": f, "is_active": True}) on user_subscriptions
ActiveSubs(u, f) ==
    {s \in subscriptions : s.user_id = u /\ s.fund_id = f /\ s.is_active}

\* the documents of the funds collection: two active funds with different
\* minimums and an inactive one
FundDocs ==
    [f \in Catalog |->
        [minimum_amount |-> IF f = 2 THEN 3 * Unit ELSE 2 * Unit,
         is_active |-> f # 3]]

Init ==
    /\ funds = FundDocs
    /\ balance = [u \in Users |-> FloatOf(initial_balance * Unit)]
    /\ subscriptions = {}
    /\ transactions = <<>>
    /\ next_oid = 1
    /\ h = [p \in Procs |-> Idle]
    /\ hist = [p \in Procs |-> NoHist]
    /\ overlapped = [u \in Users |-> FALSE]
    /\ faults = 0
    /\ timed = FALSE
    /\ now = 0
    /\ requests = [u \in {} |-> <<>>]
    /\ preference = [u \in Users |-> "email"]
    /\ notifications = <<>>
    /\ task = NoTask

\* the handler ends: it raises HTTPException or returns its response
Finish(p, res) == [h[p] EXCEPT !.pc = "done", !.result = res]

\* a finished handler sends its response before the store serves the next
\* request of another handler
NoneDone == \A q \in Procs : h[q].pc # "done"

\* no handler is between its first and its last await
Quiet == \A q \in Procs : ~InFlight(q)

\* the run is kept finite: every request admitted can still insert its
\* transactions document; requests served strictly one after the other may
\* fill the collection up to MaxSerialTx, overlapping ones up to MaxTx
Room ==
    \/ Len(transactions) + Cardinality({q \in Procs : InFlight(q)}) < MaxTx
    \/ /\ Quiet /\ \A u \in Users : ~overlapped[u]
       /\ Len(transactions) < MaxSerialTx

\* handler slots are taken in order: a request takes the first free one
SlotBefore(q, p) == q = "h1" /\ p = "h2"

\* a request of account u enters handler p
Enter(p, u) ==
    LET others == {q \in Procs \ {p} : InFlight(q) /\ h[q].user_id = u}
    IN  /\ h[p].pc = "idle"
        /\ NoneDone /\ Room
        /\ \A q \in Procs : SlotBefore(q, p) => h[q].pc # "idle"
        /\ hist' = [q \in Procs |->
                      IF q = p /\ others = {}
                      THEN [balance |-> balance[u],
                            subs |-> {s \in subscriptions : s.user_id = u},
                            ntx |-> Len(TxOf(transactions, u)),
                            solo |-> TRUE]
                      ELSE IF q = p \/ q \in others THEN Overlapping
                      ELSE hist[q]]
        /\ overlapped' = [overlapped EXCEPT ![u] = @ \/ others # {}]

\* ---------------------------------------------------------- store requests
\* the same lookup without the is_active filter
AnyFundFound(f) == f \in DOMAIN funds

\* find_one({"fund_id": f, "is_active": True}) on funds: found or not
ActiveFundFound(f) == f \in DOMAIN funds /\ funds[f].is_active

\* find_one({"fund_id": f}) on funds: found or not
FundFound(f) == f \in DOMAIN funds

\* the minimum check with <= for <
AtOrBelowMinimum(amount, f) == amount <= funds[f].minimum_amount

\* amount_decimal < fund["minimum_amount"]
BelowMinimum(amount, f) == amount < funds[f].minimum_amount

\* the balance check with <= for <
AtOrBelowAmount(user_balance, amount) == user_balance <= amount

\* the balance check left out
BalanceUnchecked(user_balance, amount) == FALSE

\* user_balance_decimal < amount_decimal
LacksBalance(user_balance, amount) == user_balance < amount

\* user_subscriptions without its unique index
NoUniqueIndex(subs, u, f) == TRUE

\* the unique index on (user_id, fund_id) of user_subscriptions lets the
\* document in
UniqueIndexAllows(subs, u, f) ==
    \A s \in subs : ~(s.user_id = u /\ s.fund_id = f)

\* the document kept with is_active False
Deactivated(subs, id) ==
    {IF s.id = id THEN [s EXCEPT !.is_active = FALSE] ELSE s : s \in subs}

\* delete_one({"_id": id}) on user_subscriptions
DeleteOne(subs, id) == {s \in subs : s.id # id}

\* float(user_balance_decimal - amount_decimal)
DebitedBalance(user_balance, amount) == FloatOf(user_balance - amount)

\* float(user["balance"] + subscription["amount"])
CreditedBalance(user_balance, sub_amount) == FloatAdd(user_balance, sub_amount)

\* the greatest of a set of times, 0 for none
Latest(S) == IF S = {} THEN 0 ELSE CHOOSE t \in S : \A o \in S : o <= t

\* asyncio.get_event_loop().time() read by handler p: the clock is
\* monotonic, so the time is later than every time read before, those of the
\* documents stored and those held by the handlers in flight.  Only the
\* listing of transactions reads created_at, so only the runs that list
\* transactions follow the time; in the others every document carries 0.
LoopTime(p) ==
    IF ~timed THEN 0 ELSE
    1 + Latest({transactions[i].created_at : i \in 1..Len(transactions)}
               \cup {h[q].created_at : q \in Procs \ {p}})

\* insert_one on a collection kept in insertion order, put first
InsertFirst(docs, doc) == <<doc>> \o docs

\* insert_one on a collection kept in insertion order
InsertOne(docs, doc) == Append(docs, doc)

\* the transaction document of a subscription
SubscriptionTx(u, f, user_balance, amount, created_at) ==
    [user_id |-> u, fund_id |-> f, transaction_type |-> "subscription",
     amount |-> FloatOf(amount),
     balance_before |-> FloatOf(user_balance),
     balance_after |-> FloatOf(user_balance - amount),
     status |-> "completed", created_at |-> created_at]

\* the transaction document of a cancellation
CancellationTx(u, f, user_balance, sub_amount, created_at) ==
    [user_id |-> u, fund_id |-> f, transaction_type |-> "cancellation",
     amount |-> sub_amount,
     balance_before |-> user_balance,
     balance_after |-> FloatAdd(user_balance, sub_amount),
     status |-> "completed", created_at |-> created_at]

\* -------------------------------------------------------- subscribe_to_fund
\* the request arrives; fund lookup and minimum amount
SubscribeStart(p, u, f, x) ==
    /\ Enter(p, u)
    /\ h' = [h EXCEPT ![p] =
               LET r == [Idle EXCEPT !.kind = "subscribe", !.user_id = u,
                                     !.fund_id = f, !.amount = x]
               IN  IF ~ActiveFundFound(f)
                   THEN [r EXCEPT !.pc = "done", !.result = "FundNotFound"]
                   ELSE IF BelowMinimum(x, f)
                   THEN [r EXCEPT !.pc = "done", !.result = "BelowMinimumInvestment"]
                   ELSE [r EXCEPT !.pc = "get_user"]]
    /\ UNCHANGED <<other, store, faults>>

\* find the user document, read its balance, check it against the amount
SubscribeGetUser(p) ==
    /\ h[p].pc = "get_user" /\ h[p].kind = "subscribe"
    /\ NoneDone
    /\ LET user_balance == DecimalOfStr(balance[h[p].user_id])
       IN  h' = [h EXCEPT ![p] =
                   IF LacksBalance(user_balance, h[p].amount)
                   THEN Finish(p, "InsufficientFunds")
                   ELSE [h[p] EXCEPT !.pc = "find_sub", !.user_balance = user_balance]]
    /\ UNCHANGED <<other, store, hist, overlapped, faults>>

\* look for an active subscription of the account to the fund; the
\* transaction document is built, with the time, before the next await
SubscribeFindSub(p) ==
    /\ h[p].pc = "find_sub" /\ h[p].kind = "subscribe"
    /\ NoneDone
    /\ h' = [h EXCEPT ![p] =
               IF ActiveSubs(h[p].user_id, h[p].fund_id) # {}
               THEN Finish(p, "DuplicateSubscription")
               ELSE [h[p] EXCEPT !.pc = "insert_tx", !.created_at = LoopTime(p)]]
    /\ UNCHANGED <<other, store, hist, overlapped, faults>>

\* insert_one on transactions; a store error ends the handler with 500
SubscribeInsertTx(p, ok) ==
    /\ h[p].pc = "insert_tx" /\ h[p].kind = "subscribe"
    /\ NoneDone
    /\ (ok \/ faults < MaxFaults)
    /\ faults' = IF ok THEN faults ELSE faults + 1
    /\ IF ok
       THEN /\ transactions' = InsertOne(transactions,
                   SubscriptionTx(h[p].user_id, h[p].fund_id,
                                  h[p].user_balance, h[p].amount, h[p].created_at))
            /\ h' = [h EXCEPT ![p].pc = "update_balance"]
       ELSE /\ h' = [h EXCEPT ![p] = Finish(p, "PersistenceFailure")]
            /\ UNCHANGED transactions
    /\ UNCHANGED <<other, funds, balance, subscriptions, next_oid, hist, overlapped>>

\* update_one on users: $set the balance computed from the balance read
SubscribeUpdateBalance(p, ok) ==
    /\ h[p].pc = "update_balance" /\ h[p].kind = "subscribe"
    /\ NoneDone
    /\ (ok \/ faults < MaxFaults)
    /\ faults' = IF ok THEN faults ELSE faults + 1
    /\ IF ok
       THEN /\ balance' = [balance EXCEPT ![h[p].user_id] =
                             DebitedBalance(h[p].user_balance, h[p].amount)]
            /\ h' = [h EXCEPT ![p].pc = "write_sub"]
       ELSE /\ h' = [h EXCEPT ![p] = Finish(p, "PersistenceFailure")]
            /\ UNCHANGED balance
    /\ UNCHANGED <<other, funds, subscriptions, transactions, next_oid, hist, overlapped>>

\* insert_one on user_subscriptions; a duplicate key or a store error ends
\* the handler with 500
SubscribeInsertSub(p, ok) ==
    /\ h[p].pc = "write_sub" /\ h[p].kind = "subscribe"
    /\ NoneDone
    /\ (ok \/ faults < MaxFaults)
    /\ faults' = IF ok THEN faults ELSE faults + 1
    /\ IF ok /\ UniqueIndexAllows(subscriptions, h[p].user_id, h[p].fund_id)
       THEN /\ subscriptions' = subscriptions \cup
                   {[id |-> next_oid, user_id |-> h[p].user_id,
                     fund_id |-> h[p].fund_id, amount |-> FloatOf(h[p].amount),
                     is_active |-> TRUE]}
            /\ next_oid' = next_oid + 1
            /\ h' = [h EXCEPT ![p] = Finish(p, "completed")]
       ELSE /\ h' = [h EXCEPT ![p] = Finish(p, "PersistenceFailure")]
            /\ UNCHANGED <<subscriptions, next_oid>>
    /\ UNCHANGED <<other, funds, balance, transactions, hist, overlapped>>

\* ------------------------------------------------------ cancel_subscription
\* the request arrives; fund lookup
CancelStart(p, u, f) ==
    /\ Enter(p, u)
    /\ h' = [h EXCEPT ![p] =
               LET r == [Idle EXCEPT !.kind = "cancel", !.user_id = u, !.fund_id = f]
               IN  IF ~FundFound(f)
                   THEN [r EXCEPT !.pc = "done", !.result = "FundNotFound"]
                   ELSE [r EXCEPT !.pc = "find_sub"]]
    /\ UNCHANGED <<other, store, faults>>

\* find the active subscription of the account to the fund
CancelFindSub(p) ==
    /\ h[p].pc = "find_sub" /\ h[p].kind = "cancel"
    /\ NoneDone
    /\ LET found == ActiveSubs(h[p].user_id, h[p].fund_id)
       IN  h' = [h EXCEPT ![p] =
                   IF found = {}
                   THEN Finish(p, "SubscriptionNotFound")
                   ELSE LET s == CHOOSE s \in found : TRUE
                        IN  [h[p] EXCEPT !.pc = "get_user", !.sub_id = s.id,
                                         !.sub_amount = s.amount]]
    /\ UNCHANGED <<other, store, hist, overlapped, faults>>

\* find the user document, read its balance; the transaction document is
\* built, with the time, before the next await
CancelGetUser(p) ==
    /\ h[p].pc = "get_user" /\ h[p].kind = "cancel"
    /\ NoneDone
    /\ h' = [h EXCEPT ![p] =
               [h[p] EXCEPT !.pc = "insert_tx", !.user_balance = balance[h[p].user_id],
                            !.created_at = LoopTime(p)]]
    /\ UNCHANGED <<other, store, hist, overlapped, faults>>

\* insert_one on transactions
CancelInsertTx(p, ok) ==
    /\ h[p].pc = "insert_tx" /\ h[p].kind = "cancel"
    /\ NoneDone
    /\ (ok \/ faults < MaxFaults)
    /\ faults' = IF ok THEN faults ELSE faults + 1
    /\ IF ok
       THEN /\ transactions' = InsertOne(transactions,
                   CancellationTx(h[p].user_id, h[p].fund_id,
                                  h[p].user_balance, h[p].sub_amount, h[p].created_at))
            /\ h' = [h EXCEPT ![p].pc = "update_balance"]
       ELSE /\ h' = [h EXCEPT ![p] = Finish(p, "PersistenceFailure")]
            /\ UNCHANGED transactions
    /\ UNCHANGED <<other, funds, balance, subscriptions, next_oid, hist, overlapped>>

\* update_one on users: $set the balance computed from the balance read
CancelUpdateBalance(p, ok) ==
    /\ h[p].pc = "update_balance" /\ h[p].kind = "cancel"
    /\ NoneDone
    /\ (ok \/ faults < MaxFaults)
    /\ faults' = IF ok THEN faults ELSE faults + 1
    /\ IF ok
       THEN /\ balance' = [balance EXCEPT ![h[p].user_id] =
                             CreditedBalance(h[p].user_balance, h[p].sub_amount)]
            /\ h' = [h EXCEPT ![p].pc = "write_sub"]
       ELSE /\ h' = [h EXCEPT ![p] = Finish(p, "PersistenceFailure")]
            /\ UNCHANGED balance
    /\ UNCHANGED <<other, funds, subscriptions, transactions, next_oid, hist, overlapped>>

\* delete_one on user_subscriptions by the _id read earlier
CancelDeleteSub(p, ok) ==
    /\ h[p].pc = "write_sub" /\ h[p].kind = "cancel"
    /\ NoneDone
    /\ (ok \/ faults < MaxFaults)
    /\ faults' = IF ok THEN faults ELSE faults + 1
    /\ IF ok
       THEN /\ subscriptions' = DeleteOne(subscriptions, h[p].sub_id)
            /\ h' = [h EXCEPT ![p] = Finish(p, "completed")]
       ELSE /\ h' = [h EXCEPT ![p] = Finish(p, "PersistenceFailure")]
            /\ UNCHANGED subscriptions
    /\ UNCHANGED <<other, funds, balance, transactions, next_oid, hist, overlapped>>

\* the response (or the error) has been sent; the handler is free again
Respond(p) ==
    /\ h[p].pc = "done"
    /\ h' = [h EXCEPT ![p] = Idle]
    /\ hist' = [hist EXCEPT ![p] = NoHist]
    /\ UNCHANGED <<other, store, overlapped, faults>>

Next ==
    \/ \E p \in Procs, u \in Users, f \in FundIds, x \in Amounts :
           SubscribeStart(p, u, f, x)
    \/ \E p \in Procs : SubscribeGetUser(p)
    \/ \E p \in Procs : SubscribeFindSub(p)
    \/ \E p \in Procs, ok \in BOOLEAN : SubscribeInsertTx(p, ok)
    \/ \E p \in Procs, ok \in BOOLEAN : SubscribeUpdateBalance(p, ok)
    \/ \E p \in Procs, ok \in BOOLEAN : SubscribeInsertSub(p, ok)
    \/ \E p \in Procs, u \in Users, f \in FundIds : CancelStart(p, u, f)
    \/ \E p \in Procs : CancelFindSub(p)
    \/ \E p \in Procs : CancelGetUser(p)
    \/ \E p \in Procs, ok \in BOOLEAN : CancelInsertTx(p, ok)
    \/ \E p \in Procs, ok \in BOOLEAN : CancelUpdateBalance(p, ok)
    \/ \E p \in Procs, ok \in BOOLEAN : CancelDeleteSub(p, ok)
    \/ \E p \in Procs : Respond(p)

Spec == Init /\ [][Next]_vars

\* the handler that serves the requests
Serial == "h1"

\* ------------------------------------------------------ notification service
\* POST /notifications/send schedules NotificationService.send_notification
\* as a background task; any authenticated client can call it, for any
\* user id.  The funds service never calls it.

\* user ids a notification request can name: the id of a user, a
\* well-formed ObjectId string of no user, and a UUID string
Recipients == Users \cup {"nobody", "uuid"}

\* the strings ObjectId(user_id) accepts (24 hex digits): the _id values of
\* the users collection are ObjectIds
ObjectIdStrs == Users \cup {"nobody"}

\* the strings the field user_id: UUID of Notification accepts (32 hex
\* digits)
UuidStrs == {"uuid"}

\* NotificationType
NotificationTypes == {"email", "sms"}

\* the endpoint: the task is scheduled and the response returned
NotifyRequest(u, t) ==
    /\ task.pc = "idle"
    /\ task' = [NoTask EXCEPT !.pc = "find_user", !.user_id = u, !.type = t]
    /\ UNCHANGED <<store, h, hist, overlapped, faults, timed, limiter, preference, notifications>>

\* find the user: ObjectId(user_id) raises for a string that is no ObjectId,
\* and without a user the task returns False
NotifyFindUser ==
    /\ task.pc = "find_user"
    /\ task' = IF task.user_id \in ObjectIdStrs /\ task.user_id \in Users
               THEN [task EXCEPT !.pc = "create"]
               ELSE NoTask
    /\ UNCHANGED <<store, h, hist, overlapped, faults, timed, limiter, preference, notifications>>

\* create_notification: Notification(user_id=user_id, ...) validates user_id
\* as a UUID; the id of a user that was found is an ObjectId string, the
\* validation error is raised before insert_one and caught by
\* send_notification, which returns False: nothing is inserted, nothing is
\* sent, no status is updated
NotifyCreate ==
    /\ task.pc = "create"
    /\ task.user_id \notin UuidStrs
    /\ task' = NoTask
    /\ UNCHANGED <<store, h, hist, overlapped, faults, timed, limiter, preference, notifications>>

\* funds and amounts of the requests served next to the notification task
NotifyFunds == {1}
NotifyAmounts == {D(2, 1)}

\* the funds service serving one request at a time, and the notification
\* service
NextNotify ==
    \/ \E u \in Users, f \in NotifyFunds, x \in NotifyAmounts :
           SubscribeStart(Serial, u, f, x)
    \/ SubscribeGetUser(Serial)
    \/ SubscribeFindSub(Serial)
    \/ \E ok \in BOOLEAN : SubscribeInsertTx(Serial, ok)
    \/ \E ok \in BOOLEAN : SubscribeUpdateBalance(Serial, ok)
    \/ \E ok \in BOOLEAN : SubscribeInsertSub(Serial, ok)
    \/ \E u \in Users, f \in NotifyFunds : CancelStart(Serial, u, f)
    \/ CancelFindSub(Serial)
    \/ CancelGetUser(Serial)
    \/ \E ok \in BOOLEAN : CancelInsertTx(Serial, ok)
    \/ \E ok \in BOOLEAN : CancelUpdateBalance(Serial, ok)
    \/ \E ok \in BOOLEAN : CancelDeleteSub(Serial, ok)
    \/ Respond(Serial)
    \/ \E u \in Recipients, t \in NotificationTypes : NotifyRequest(u, t)
    \/ NotifyFindUser
    \/ NotifyCreate

\* what the event loop runs to its end once a request has arrived: the
\* handler of the request and the background task
Scheduled ==
    \/ SubscribeGetUser(Serial)
    \/ SubscribeFindSub(Serial)
    \/ \E ok \in BOOLEAN : SubscribeInsertTx(Serial, ok)
    \/ \E ok \in BOOLEAN : SubscribeUpdateBalance(Serial, ok)
    \/ \E ok \in BOOLEAN : SubscribeInsertSub(Serial, ok)
    \/ CancelFindSub(Serial)
    \/ CancelGetUser(Serial)
    \/ \E ok \in BOOLEAN : CancelInsertTx(Serial, ok)
    \/ \E ok \in BOOLEAN : CancelUpdateBalance(Serial, ok)
    \/ \E ok \in BOOLEAN : CancelDeleteSub(Serial, ok)
    \/ Respond(Serial)
    \/ NotifyFindUser
    \/ NotifyCreate

SpecNotify == Init /\ [][NextNotify]_vars /\ WF_vars(Scheduled)

\* ------------------------------------------------------------------ queries
\* a query enters handler p; it inserts nothing
EnterQuery(p) ==
    /\ h[p].pc = "idle"
    /\ NoneDone
    /\ \A q \in Procs : SlotBefore(q, p) => h[q].pc # "idle"

\* sum(sub["amount"] for sub in subscriptions): float additions, starting
\* from 0, in the order of the cursor (by _id)
RECURSIVE FloatSum(_)
FloatSum(S) ==
    IF S = {} THEN 0
    ELSE LET last == CHOOSE s \in S : \A t \in S : t.id <= s.id
         IN  FloatAdd(FloatSum(S \ {last}), last.amount)

\* sort("created_at", -1); the times of two documents never tie here (see
\* LoopTime)
RECURSIVE NewestFirst(_)
NewestFirst(txs) ==
    IF txs = <<>> THEN <<>>
    ELSE LET i == CHOOSE i \in DOMAIN txs :
                      \A j \in DOMAIN txs : txs[j].created_at <= txs[i].created_at
         IN  <<txs[i]>> \o
             NewestFirst(SubSeq(txs, 1, i - 1) \o SubSeq(txs, i + 1, Len(txs)))

\* get_user_balance: find_one on users
GetBalanceStart(p, u) ==
    /\ EnterQuery(p)
    /\ h' = [h EXCEPT ![p] =
               [Idle EXCEPT !.pc = "find_subs", !.kind = "balance",
                            !.user_id = u, !.user_balance = balance[u]]]
    /\ UNCHANGED <<other, store, hist, overlapped, faults>>

\* get_user_balance: find on user_subscriptions, the sum, the response
GetBalanceFindSubs(p) ==
    /\ h[p].pc = "find_subs" /\ h[p].kind = "balance"
    /\ NoneDone
    /\ h' = [h EXCEPT ![p] =
               [h[p] EXCEPT !.pc = "done", !.result = "ok",
                            !.total_invested =
                                FloatSum({s \in subscriptions :
                                             s.user_id = h[p].user_id /\ s.is_active})]]
    /\ UNCHANGED <<other, store, hist, overlapped, faults>>

\* get_user_transactions: find, sort, to_list and the response
ListTransactions(p, u) ==
    /\ EnterQuery(p)
    /\ h' = [h EXCEPT ![p] =
               [Idle EXCEPT !.pc = "done", !.kind = "transactions",
                            !.user_id = u, !.result = "ok",
                            !.listing = NewestFirst(TxOf(transactions, u))]]
    /\ UNCHANGED <<other, store, hist, overlapped, faults>>

\* funds and amounts of the requests served next to the queries
QueryFunds == {1, 2}
QueryAmounts == {D(2, 1)}

\* the documents carry the loop time
InitQueries ==
    /\ funds = FundDocs
    /\ balance = [u \in Users |-> FloatOf(initial_balance * Unit)]
    /\ subscriptions = {}
    /\ transactions = <<>>
    /\ next_oid = 1
    /\ h = [p \in Procs |-> Idle]
    /\ hist = [p \in Procs |-> NoHist]
    /\ overlapped = [u \in Users |-> FALSE]
    /\ faults = 0
    /\ timed = TRUE
    /\ now = 0
    /\ requests = [u \in {} |-> <<>>]
    /\ preference = [u \in Users |-> "email"]
    /\ notifications = <<>>
    /\ task = NoTask

\* subscribes, cancels and queries of the handlers, with no store error
NextQueries ==
    \/ \E p \in Procs, u \in Users, f \in QueryFunds, x \in QueryAmounts :
           SubscribeStart(p, u, f, x)
    \/ \E p \in Procs : SubscribeGetUser(p)
    \/ \E p \in Procs : SubscribeFindSub(p)
    \/ \E p \in Procs : SubscribeInsertTx(p, TRUE)
    \/ \E p \in Procs : SubscribeUpdateBalance(p, TRUE)
    \/ \E p \in Procs : SubscribeInsertSub(p, TRUE)
    \/ \E p \in Procs, u \in Users, f \in QueryFunds : CancelStart(p, u, f)
    \/ \E p \in Procs : CancelFindSub(p)
    \/ \E p \in Procs : CancelGetUser(p)
    \/ \E p \in Procs : CancelInsertTx(p, TRUE)
    \/ \E p \in Procs : CancelUpdateBalance(p, TRUE)
    \/ \E p \in Procs : CancelDeleteSub(p, TRUE)
    \/ \E p \in Procs : Respond(p)
    \/ \E p \in Procs, u \in Users : GetBalanceStart(p, u)
    \/ \E p \in Procs : GetBalanceFindSubs(p)
    \/ \E p \in Procs, u \in Users : ListTransactions(p, u)

SpecQueries == InitQueries /\ [][NextQueries]_vars

\* funds of the requests served one after the other
SerialFunds == {1, 2}

\* subscribes, cancels and queries served one after the other by one
\* handler, with no store error
NextSerial ==
    \/ \E u \in Users, f \in SerialFunds, x \in Amounts :
           SubscribeStart(Serial, u, f, x)
    \/ SubscribeGetUser(Serial)
    \/ SubscribeFindSub(Serial)
    \/ SubscribeInsertTx(Serial, TRUE)
    \/ SubscribeUpdateBalance(Serial, TRUE)
    \/ SubscribeInsertSub(Serial, TRUE)
    \/ \E u \in Users, f \in SerialFunds : CancelStart(Serial, u, f)
    \/ CancelFindSub(Serial)
    \/ CancelGetUser(Serial)
    \/ CancelInsertTx(Serial, TRUE)
    \/ CancelUpdateBalance(Serial, TRUE)
    \/ CancelDeleteSub(Serial, TRUE)
    \/ Respond(Serial)
    \/ \E u \in Users : GetBalanceStart(Serial, u)
    \/ GetBalanceFindSubs(Serial)
    \/ \E u \in Users : ListTransactions(Serial, u)

SpecSerial == Init /\ [][NextSerial]_vars

\* ------------------------------------------------------------- rate limiter
\* RateLimiter.is_allowed runs with no await: one step.  check_rate_limit is
\* a dependency of every handler: the handler body starts only when it has
\* returned the user.

\* user ids of the tokens a request can carry
Callers == Users \cup {"u2"}

\* the times kept whatever their age
Uncleaned(times, minute_ago) == times

\* [req_time for req_time in self.requests[user_id] if req_time > minute_ago]
Cleaned(times, minute_ago) ==
    LET Later(t) == t > minute_ago IN SelectSeq(times, Later)

\* the limit taken one request too late
AboveLimit(n) == n > rate_limit_per_minute

\* len(self.requests[user_id]) >= settings.rate_limit_per_minute
AtLimit(n) == n >= rate_limit_per_minute

\* the list of user_id after the cleaning, [] for a user id not seen yet
Kept(u) ==
    Cleaned(IF u \in DOMAIN requests THEN requests[u] ELSE <<>>, now - Minute)

\* is_allowed(u)
IsAllowed(u) == ~AtLimit(Len(Kept(u)))

\* self.requests after is_allowed(u)
AfterIsAllowed(u) ==
    [v \in DOMAIN requests \cup {u} |->
        IF v # u THEN requests[v]
        ELSE IF IsAllowed(u) THEN Append(Kept(u), now) ELSE Kept(u)]

\* time passes
Tick ==
    /\ now < MaxTime
    /\ now' = now + 1
    /\ UNCHANGED <<store, h, hist, overlapped, faults, timed, requests,
                   preference, notifications, task>>

\* a request with the token of u reaches handler p: check_rate_limit returns
\* the user, and the body of the handler is next, or raises 429
CheckRateLimit(p, u) ==
    /\ h[p] = Idle
    /\ NoneDone
    /\ requests' = AfterIsAllowed(u)
    /\ h' = [h EXCEPT ![p] =
               IF IsAllowed(u)
               THEN [Idle EXCEPT !.user_id = u]
               ELSE [Idle EXCEPT !.pc = "done", !.kind = "limited",
                                 !.user_id = u, !.result = "TooManyRequests"]]
    /\ UNCHANGED <<store, hist, overlapped, faults, timed, now, preference,
                   notifications, task>>

\* handler p holds a request of u that check_rate_limit has let through
Admitted(p, u) == h[p].pc = "idle" /\ h[p].user_id = u

\* the bodies of the handlers start with the request let through
LimitedSubscribeStart(p, u, f, x) == Admitted(p, u) /\ SubscribeStart(p, u, f, x)

LimitedCancelStart(p, u, f) == Admitted(p, u) /\ CancelStart(p, u, f)

LimitedListTransactions(p, u) == Admitted(p, u) /\ ListTransactions(p, u)

\* funds and amounts of the requests that pass the rate limiter
LimitedFunds == {1}
LimitedAmounts == {D(2, 1)}

\* the clock, the rate limiter and the handler bodies behind it, with no
\* store error
NextLimited ==
    \/ Tick
    \/ \E u \in Callers : CheckRateLimit(Serial, u)
    \/ \E u \in Users, f \in LimitedFunds, x \in LimitedAmounts :
           LimitedSubscribeStart(Serial, u, f, x)
    \/ SubscribeGetUser(Serial)
    \/ SubscribeFindSub(Serial)
    \/ SubscribeInsertTx(Serial, TRUE)
    \/ SubscribeUpdateBalance(Serial, TRUE)
    \/ SubscribeInsertSub(Serial, TRUE)
    \/ \E u \in Users, f \in LimitedFunds :
           LimitedCancelStart(Serial, u, f)
    \/ CancelFindSub(Serial)
    \/ CancelGetUser(Serial)
    \/ CancelInsertTx(Serial, TRUE)
    \/ CancelUpdateBalance(Serial, TRUE)
    \/ CancelDeleteSub(Serial, TRUE)
    \/ Respond(Serial)
    \/ \E u \in Callers : LimitedListTransactions(Serial, u)

SpecLimited == Init /\ [][NextLimited]_vars

\* ------------------------------------------------------------ user profile
\* PUT /users/me of the auth service: update_one on users with $set of the
\* fields given (first_name, last_name, phone, notification_preference) and
\* of updated_at; of these the model follows notification_preference
UpdateCurrentUser(u, pref) ==
    /\ preference' = [preference EXCEPT ![u] = pref]
    /\ UNCHANGED <<store, h, hist, overlapped, faults, timed, limiter,
                   notifications, task>>

\* PUT /users/{user_id}/notification-preference of the notification
\* service: 403 for the id of another user, else update_one on users with
\* $set of notification_preference
UpdateNotificationPreference(caller, u, pref) ==
    /\ preference' = IF caller = u /\ u \in Users
                     THEN [preference EXCEPT ![u] = pref]
                     ELSE preference
    /\ UNCHANGED <<store, h, hist, overlapped, faults, timed, limiter,
                   notifications, task>>

\* the requests of every service that reach the users collection: the funds
\* service serving one request at a time, store errors included, the
\* queries, the profile updates and the notification task
NextUsers ==
    \/ \E u \in Users, f \in NotifyFunds, x \in NotifyAmounts :
           SubscribeStart(Serial, u, f, x)
    \/ SubscribeGetUser(Serial)
    \/ SubscribeFindSub(Serial)
    \/ \E ok \in BOOLEAN : SubscribeInsertTx(Serial, ok)
    \/ \E ok \in BOOLEAN : SubscribeUpdateBalance(Serial, ok)
    \/ \E ok \in BOOLEAN : SubscribeInsertSub(Serial, ok)
    \/ \E u \in Users, f \in NotifyFunds : CancelStart(Serial, u, f)
    \/ CancelFindSub(Serial)
    \/ CancelGetUser(Serial)
    \/ \E ok \in BOOLEAN : CancelInsertTx(Serial, ok)
    \/ \E ok \in BOOLEAN : CancelUpdateBalance(Serial, ok)
    \/ \E ok \in BOOLEAN : CancelDeleteSub(Serial, ok)
    \/ Respond(Serial)
    \/ \E u \in Users : GetBalanceStart(Serial, u)
    \/ GetBalanceFindSubs(Serial)
    \/ \E u \in Users : ListTransactions(Serial, u)
    \/ \E u \in Users, pref \in NotificationTypes : UpdateCurrentUser(u, pref)
    \/ \E caller \in Callers, u \in Callers, pref \in NotificationTypes :
           UpdateNotificationPreference(caller, u, pref)
    \/ \E u \in Recipients, t \in NotificationTypes : NotifyRequest(u, t)
    \/ NotifyFindUser
    \/ NotifyCreate

SpecUsers == Init /\ [][NextUsers]_vars

\* ------------------------------------------------------------ fund catalog
\* no handler writes to funds; a fund is taken out of sale by setting
\* is_active of its document to False in the store
DeactivateFund(f) ==
    /\ Quiet /\ NoneDone
    /\ funds[f].is_active
    /\ funds' = [funds EXCEPT ![f].is_active = FALSE]
    /\ UNCHANGED <<other, balance, subscriptions, transactions, next_oid, h, hist,
                   overlapped, faults>>

\* requests served one after the other with no store error, and funds taken
\* out of sale in between
NextCatalog ==
    \/ \E u \in Users, f \in SerialFunds, x \in Amounts :
           SubscribeStart(Serial, u, f, x)
    \/ SubscribeGetUser(Serial)
    \/ SubscribeFindSub(Serial)
    \/ SubscribeInsertTx(Serial, TRUE)
    \/ SubscribeUpdateBalance(Serial, TRUE)
    \/ SubscribeInsertSub(Serial, TRUE)
    \/ \E u \in Users, f \in SerialFunds : CancelStart(Serial, u, f)
    \/ CancelFindSub(Serial)
    \/ CancelGetUser(Serial)
    \/ CancelInsertTx(Serial, TRUE)
    \/ CancelUpdateBalance(Serial, TRUE)
    \/ CancelDeleteSub(Serial, TRUE)
    \/ Respond(Serial)
    \/ \E f \in SerialFunds : DeactivateFund(f)

SpecCatalog == Init /\ [][NextCatalog]_vars

\* ------------------------------------------------------------ seeded catalog
\* INITIAL_FUNDS of shared/config.py, the documents initialize_data inserts
\* into an empty funds collection (amounts in units of 50 000 COP)
INITIAL_FUNDS ==
    {[id |-> 1, min_amount |-> D(1, 5), is_active |-> TRUE],
     [id |-> 2, min_amount |-> D(2, 5), is_active |-> TRUE],
     [id |-> 3, min_amount |-> 1 * Unit, is_active |-> TRUE],
     [id |-> 4, min_amount |-> 5 * Unit, is_active |-> TRUE],
     [id |-> 5, min_amount |-> 2 * Unit, is_active |-> TRUE]}

\* the ids of the seeded funds
SeededIds == {d.id : d \in INITIAL_FUNDS}

\* the funds collection as the handlers see it: they look a document up by
\* its field "fund_id" and read its field "minimum_amount"; a document
\* without the field "fund_id" matches no lookup
ByFundId(docs) ==
    LET keyed == {d \in docs : "fund_id" \in DOMAIN d}
    IN  [f \in {d.fund_id : d \in keyed} |->
            LET d == CHOOSE d \in keyed : d.fund_id = f
            IN  [minimum_amount |-> d.minimum_amount, is_active |-> d.is_active]]

\* get_fund: find_one({"fund_id": fund_id, "is_active": True}) on funds
GetFund(p, f) ==
    /\ EnterQuery(p)
    /\ h' = [h EXCEPT ![p] =
               [Idle EXCEPT !.pc = "done", !.kind = "get_fund", !.fund_id = f,
                            !.result = IF ActiveFundFound(f) THEN "ok"
                                       ELSE "FundNotFound"]]
    /\ UNCHANGED <<other, store, hist, overlapped, faults>>

LimitedGetFund(p, u, f) == Admitted(p, u) /\ GetFund(p, f)

\* the state after the startup of the funds service on an empty funds
\* collection: initialize_data has inserted INITIAL_FUNDS
InitSeeded ==
    /\ funds = ByFundId(INITIAL_FUNDS)
    /\ balance = [u \in Users |-> FloatOf(initial_balance * Unit)]
    /\ subscriptions = {}
    /\ transactions = <<>>
    /\ next_oid = 1
    /\ h = [p \in Procs |-> Idle]
    /\ hist = [p \in Procs |-> NoHist]
    /\ overlapped = [u \in Users |-> FALSE]
    /\ faults = 0
    /\ timed = FALSE
    /\ now = 0
    /\ requests = [u \in {} |-> <<>>]
    /\ preference = [u \in Users |-> "email"]
    /\ notifications = <<>>
    /\ task = NoTask

\* the requests of the funds service on the seeded catalog, behind the rate
\* limiter
NextSeeded ==
    \/ Tick
    \/ \E p \in Procs, u \in Callers : CheckRateLimit(p, u)
    \/ \E p \in Procs, u \in Users, f \in SeededIds, x \in Amounts :
           LimitedSubscribeStart(p, u, f, x)
    \/ \E p \in Procs, u \in Users, f \in SeededIds : LimitedCancelStart(p, u, f)
    \/ \E p \in Procs, u \in Callers, f \in SeededIds : LimitedGetFund(p, u, f)
    \/ \E p \in Procs, u \in Callers : LimitedListTransactions(p, u)
    \/ \E p \in Procs : Respond(p)

SpecSeeded == InitSeeded /\ [][NextSeeded]_vars

\* ------------------------------------------------------------------ claims
\* An amount is compared as the service shows it: the documents hold
\* doubles, and every response and every later request reads one through
\* str, so the amount a double stands for is DecimalOfStr of it.
Shown(f) == DecimalOfStr(f)

RECURSIVE SumShown(_)
SumShown(S) ==
    IF S = {} THEN 0
    ELSE LET s == CHOOSE s \in S : TRUE
         IN  Shown(s.amount) + SumShown(S \ {s})

\* the active subscriptions of account u
ActiveOf(u) == {s \in subscriptions : s.user_id = u /\ s.is_active}

\* balance(u) plus the amounts of u's active subscriptions
Total(u) == Shown(balance[u]) + SumShown(ActiveOf(u))

\* handler p has ended a request of the given kind with the given outcome
Ended(p, kind, result) ==
    h[p].pc = "done" /\ h[p].kind = kind /\ h[p].result = result

\* the transactions documents account u got since handler p's request began
NewTx(p) ==
    LET txs == TxOf(transactions, h[p].user_id)
    IN  SubSeq(txs, hist[p].ntx + 1, Len(txs))

\* C1: after a successful subscribe(a, f, x) that ran with no other request
\* of a in flight, the balance of a is the balance before minus x, a has
\* exactly one active subscription to f and its amount is x, and a got
\* exactly one new transactions document, of kind subscription, whose
\* balance_before is the prior balance and whose balance_after is
\* balance_before - x and the new balance.
C1_SubscribeEffect ==
    \A p \in Procs :
        Ended(p, "subscribe", "completed") /\ hist[p].solo =>
            LET u == h[p].user_id
                x == h[p].amount
                new == NewTx(p)
            IN  /\ Shown(balance[u]) = Shown(hist[p].balance) - x
                /\ Cardinality(ActiveSubs(u, h[p].fund_id)) = 1
                /\ \A s \in ActiveSubs(u, h[p].fund_id) : Shown(s.amount) = x
                /\ Len(new) = 1
                /\ new[1].transaction_type = "subscription"
                /\ Shown(new[1].balance_before) = Shown(hist[p].balance)
                /\ Shown(new[1].balance_after) = Shown(new[1].balance_before) - x
                /\ new[1].balance_after = balance[u]

\* C2: after a successful cancel(a, f) that ran with no other request of a
\* in flight, the balance of a is the balance before plus the amount of the
\* subscription cancelled, a has no active subscription to f, and a got
\* exactly one new transactions document, of kind cancellation, with that
\* amount, balance_before the prior balance and balance_after their sum.
C2_CancelEffect ==
    \A p \in Procs :
        Ended(p, "cancel", "completed") /\ hist[p].solo =>
            LET u == h[p].user_id
                new == NewTx(p)
                was == {s \in hist[p].subs : s.fund_id = h[p].fund_id}
            IN  /\ \A s \in was :
                       Shown(balance[u]) = Shown(hist[p].balance) + Shown(s.amount)
                /\ ActiveSubs(u, h[p].fund_id) = {}
                /\ Len(new) = 1
                /\ new[1].transaction_type = "cancellation"
                /\ \A s \in was : new[1].amount = s.amount
                /\ new[1].balance_before = hist[p].balance
                /\ Shown(new[1].balance_after) =
                       Shown(new[1].balance_before) + Shown(new[1].amount)

\* C3: for an account whose requests never overlapped, whenever none of its
\* requests is being served, the balance plus the amounts of the active
\* subscriptions is what it was at the start.
C3_Conservation ==
    \A u \in Users :
        (~overlapped[u] /\ \A p \in Procs : h[p].user_id = u => ~InFlight(p))
            => Total(u) = initial_balance * Unit

\* the balance that the transactions documents txs give, applied in order
\* to the balance bal
RECURSIVE Replay(_, _)
Replay(bal, txs) ==
    IF txs = <<>> THEN bal
    ELSE Replay(IF Head(txs).transaction_type = "subscription"
                THEN bal - Shown(Head(txs).amount)
                ELSE bal + Shown(Head(txs).amount),
                Tail(txs))

\* no request of account u is being served
Settled(u) == \A p \in Procs : h[p].user_id = u => ~InFlight(p)

\* C4: whenever no request of an account is being served, its transactions
\* documents replayed in insertion order from the initial balance give its
\* stored balance.
C4_LedgerReplay ==
    \A u \in Users :
        Settled(u) =>
            Replay(initial_balance * Unit, TxOf(transactions, u)) = Shown(balance[u])

\* what a request that ran alone has changed by the time it ends
TxWritten(p) == Len(TxOf(transactions, h[p].user_id)) # hist[p].ntx
BalanceWritten(p) == balance[h[p].user_id] # hist[p].balance
SubWritten(p) == {s \in subscriptions : s.user_id = h[p].user_id} # hist[p].subs

\* C5: a subscribe or cancel that ran alone ends with its three writes
\* (transactions document, balance, subscription) all applied or none of
\* them, and with none of them when it ends in an error.
C5_AllOrNothing ==
    \A p \in Procs :
        h[p].pc = "done" /\ hist[p].solo =>
            /\ TxWritten(p) = BalanceWritten(p)
            /\ BalanceWritten(p) = SubWritten(p)
            /\ h[p].result # "completed" => ~TxWritten(p)

\* C6: while an account has only subscribed since it was registered, the
\* amounts of its accepted (active) subscriptions sum to at most the balance
\* it started with, also when its requests ran concurrently.
C6_NoOverspend ==
    \A u \in Users :
        (\A i \in 1..Len(transactions) :
             transactions[i].user_id = u =>
                 transactions[i].transaction_type = "subscription")
            => SumShown(ActiveOf(u)) <= initial_balance * Unit

\* C7: the balance write of a subscribe or cancel applies the request's
\* delta to the balance that is stored at the time of the write (no handler
\* ever ends with ConcurrencyConflict).
C7_NoLostUpdate ==
    [][\A p \in Procs :
          (h[p].pc = "update_balance" /\ h'[p].pc = "write_sub") =>
              LET u == h[p].user_id
              IN  balance'[u] =
                      IF h[p].kind = "subscribe"
                      THEN DebitedBalance(DecimalOfStr(balance[u]), h[p].amount)
                      ELSE CreditedBalance(balance[u], h[p].sub_amount)]_vars

\* C8: in every reachable state, also between the writes of overlapping
\* requests, every stored balance is at least zero.
C8_BalanceNeverNegative == \A u \in Users : balance[u] >= 0

\* overlapping subscriptions have been accepted for more than the account
\* ever had, and the balance is not negative
C8_Witness ==
    \E u \in Users :
        /\ overlapped[u]
        /\ SumShown(ActiveOf(u)) > initial_balance * Unit
        /\ balance[u] >= 0

\* C9: in every reachable state there is at most one active subscription
\* per (account, fund).
C9_OneActiveSubscription ==
    \A u \in Users, f \in FundIds : Cardinality(ActiveSubs(u, f)) <= 1

\* a subscribe that overlapped another one for the same fund was turned
\* down by the unique index (no store error occurred), and one
\* subscription is there
C9_Witness ==
    \E p \in Procs :
        /\ Ended(p, "subscribe", "PersistenceFailure")
        /\ faults = 0
        /\ Cardinality(ActiveSubs(h[p].user_id, h[p].fund_id)) = 1

\* handler p has ended a subscribe that ran alone, for an active fund, with
\* an amount of at least the minimum, while the account had an active
\* subscription to that fund
RepeatedSubscribe(p) ==
    /\ h[p].pc = "done" /\ h[p].kind = "subscribe" /\ hist[p].solo
    /\ ActiveFundFound(h[p].fund_id)
    /\ ~BelowMinimum(h[p].amount, h[p].fund_id)
    /\ \E s \in hist[p].subs : s.fund_id = h[p].fund_id /\ s.is_active

\* C10 as stated: such a subscribe fails with DuplicateSubscription whatever
\* the balance is.
C10_DuplicateWhateverBalance ==
    \A p \in Procs : RepeatedSubscribe(p) => h[p].result = "DuplicateSubscription"

\* C10 as amended: such a subscribe fails with InsufficientFunds when the
\* balance is below the amount and with DuplicateSubscription otherwise: the
\* balance check precedes the duplicate-subscription check.
C10_BalanceCheckFirst ==
    \A p \in Procs :
        RepeatedSubscribe(p) =>
            h[p].result = IF Shown(hist[p].balance) < h[p].amount
                          THEN "InsufficientFunds"
                          ELSE "DuplicateSubscription"

\* a repeated subscribe was turned down for its balance
C10_Witness ==
    \E p \in Procs : RepeatedSubscribe(p) /\ h[p].result = "InsufficientFunds"

\* the errors the handlers raise before their first write
ValidationFailures ==
    {"FundNotFound", "BelowMinimumInvestment", "InsufficientFunds",
     "DuplicateSubscription", "SubscriptionNotFound"}

\* the account had an active subscription to the fund of p's request when
\* the request began
HadSubscription(p) ==
    \E s \in hist[p].subs : s.fund_id = h[p].fund_id /\ s.is_active

\* p's request is a subscribe that the state it began in does not allow
InvalidSubscribe(p) ==
    /\ h[p].kind = "subscribe"
    /\ \/ h[p].fund_id \notin DOMAIN funds
       \/ ~funds[h[p].fund_id].is_active
       \/ h[p].amount < funds[h[p].fund_id].minimum_amount
       \/ Shown(hist[p].balance) < h[p].amount
       \/ HadSubscription(p)

\* p's request is a cancel that the state it began in does not allow
InvalidCancel(p) ==
    /\ h[p].kind = "cancel"
    /\ (h[p].fund_id \notin DOMAIN funds \/ ~HadSubscription(p))

\* C11: a subscribe or cancel that ran alone and that the state it began in
\* does not allow (fund missing or inactive, amount below the minimum,
\* balance below the amount, subscription already active, no subscription to
\* cancel) ends in a validation error with the balance, the subscriptions and
\* the transactions of the account as they were.
C11_ValidationFrame ==
    \A p \in Procs :
        h[p].pc = "done" /\ hist[p].solo /\ (InvalidSubscribe(p) \/ InvalidCancel(p)) =>
            /\ h[p].result \in ValidationFailures
            /\ ~TxWritten(p) /\ ~BalanceWritten(p) /\ ~SubWritten(p)

\* a request was turned down by validation on an account that already has
\* transactions and a subscription
C11_Witness ==
    \E p \in Procs :
        /\ h[p].pc = "done" /\ hist[p].solo
        /\ InvalidSubscribe(p) \/ InvalidCancel(p)
        /\ h[p].result \in ValidationFailures
        /\ hist[p].ntx > 0 /\ hist[p].subs # {}

\* ------------------------------------------------------ boundary requests
\* Requests served one at a time by a store that raises no error, for
\* accounts with different balances, with amounts at and next to the fund
\* minimums and the balances.

\* the smallest difference between two amounts requested
AmountStep == Unit \div 10

\* balances of the accounts when the run starts
StartBalances == {3, 10}

\* the fund minimums and the starting balances, and the amounts one step
\* below a minimum and one step above a balance
BoundaryAmounts ==
    UNION {{FundDocs[f].minimum_amount - AmountStep, FundDocs[f].minimum_amount} :
               f \in {g \in Catalog : FundDocs[g].is_active}}
    \cup UNION {{b * Unit, b * Unit + AmountStep} : b \in StartBalances}


InitBoundary ==
    /\ funds = FundDocs
    /\ balance \in [Users -> {FloatOf(b * Unit) : b \in StartBalances}]
    /\ subscriptions = {}
    /\ transactions = <<>>
    /\ next_oid = 1
    /\ h = [p \in Procs |-> Idle]
    /\ hist = [p \in Procs |-> NoHist]
    /\ overlapped = [u \in Users |-> FALSE]
    /\ faults = 0
    /\ timed = FALSE
    /\ now = 0
    /\ requests = [u \in {} |-> <<>>]
    /\ preference = [u \in Users |-> "email"]
    /\ notifications = <<>>
    /\ task = NoTask

NextBoundary ==
    \/ \E u \in Users, f \in FundIds, x \in BoundaryAmounts :
           SubscribeStart(Serial, u, f, x)
    \/ SubscribeGetUser(Serial)
    \/ SubscribeFindSub(Serial)
    \/ SubscribeInsertTx(Serial, TRUE)
    \/ SubscribeUpdateBalance(Serial, TRUE)
    \/ SubscribeInsertSub(Serial, TRUE)
    \/ \E u \in Users, f \in FundIds : CancelStart(Serial, u, f)
    \/ CancelFindSub(Serial)
    \/ CancelGetUser(Serial)
    \/ CancelInsertTx(Serial, TRUE)
    \/ CancelUpdateBalance(Serial, TRUE)
    \/ CancelDeleteSub(Serial, TRUE)
    \/ Respond(Serial)

SpecBoundary == InitBoundary /\ [][NextBoundary]_vars

\* handler p has ended a subscribe to an active fund for an account that had
\* no active subscription to it
FreshSubscribe(p) ==
    /\ h[p].pc = "done" /\ h[p].kind = "subscribe" /\ hist[p].solo
    /\ h[p].fund_id \in DOMAIN funds /\ funds[h[p].fund_id].is_active
    /\ ~HadSubscription(p)

\* C12: with no store error, a subscribe to an active fund by an account
\* with balance >= amount and no active subscription to the fund succeeds
\* when the amount is the fund's minimum and fails with
\* BelowMinimumInvestment when it is one step below the minimum.
C12_MinimumBoundary ==
    \A p \in Procs :
        FreshSubscribe(p) /\ Shown(hist[p].balance) >= h[p].amount =>
            LET minimum == funds[h[p].fund_id].minimum_amount
            IN  /\ h[p].amount = minimum => h[p].result = "completed"
                /\ h[p].amount = minimum - AmountStep =>
                       h[p].result = "BelowMinimumInvestment"

\* a subscribe one step below the minimum was turned down while the account
\* holds a subscription of exactly the minimum of its fund
C12_Witness ==
    \E p \in Procs :
        /\ FreshSubscribe(p) /\ Shown(hist[p].balance) >= h[p].amount
        /\ h[p].amount = funds[h[p].fund_id].minimum_amount - AmountStep
        /\ h[p].result = "BelowMinimumInvestment"
        /\ \E s \in subscriptions : Shown(s.amount) = funds[s.fund_id].minimum_amount

\* C13: with no store error, a subscribe to an active fund with an amount of
\* at least the minimum, by an account with no active subscription to the
\* fund, succeeds and leaves balance 0 when the amount is the whole balance,
\* and fails with InsufficientFunds when it is one step above the balance.
C13_BalanceBoundary ==
    \A p \in Procs :
        FreshSubscribe(p) /\ h[p].amount >= funds[h[p].fund_id].minimum_amount =>
            /\ h[p].amount = Shown(hist[p].balance) =>
                   h[p].result = "completed" /\ balance[h[p].user_id] = 0
            /\ h[p].amount = Shown(hist[p].balance) + AmountStep =>
                   h[p].result = "InsufficientFunds"

\* a subscribe of the whole balance has succeeded and left 0
C13_Witness ==
    \E p \in Procs :
        /\ FreshSubscribe(p) /\ h[p].amount >= funds[h[p].fund_id].minimum_amount
        /\ h[p].amount = Shown(hist[p].balance)
        /\ h[p].result = "completed" /\ balance[h[p].user_id] = 0

\* positions i of the transactions documents txs at which a subscription to
\* a fund is directly followed by the cancellation for that fund
SubscribeThenCancel(txs) ==
    {i \in 1..(Len(txs) - 1) :
        /\ txs[i].transaction_type = "subscription"
        /\ txs[i + 1].transaction_type = "cancellation"
        /\ txs[i + 1].fund_id = txs[i].fund_id}

\* C14: for an account whose requests never overlapped, with no store error,
\* a successful subscribe directly followed by the cancel for the same fund
\* leaves two transactions documents (subscription, b -> b - x) and
\* (cancellation, b - x -> b), and right after the cancel the balance is b
\* again and the account has no active subscription to the fund.
C14_RoundTrip ==
    \A u \in Users :
        (~overlapped[u] /\ faults = 0 /\ Settled(u)) =>
            LET txs == TxOf(transactions, u)
            IN  \A i \in SubscribeThenCancel(txs) :
                    /\ Shown(txs[i].balance_after) =
                           Shown(txs[i].balance_before) - Shown(txs[i].amount)
                    /\ txs[i + 1].balance_before = txs[i].balance_after
                    /\ txs[i + 1].balance_after = txs[i].balance_before
                    /\ i + 1 = Len(txs) =>
                           /\ balance[u] = txs[i].balance_before
                           /\ ActiveSubs(u, txs[i].fund_id) = {}

\* handler p has ended a subscribe that repeats one already committed: the
\* account had an active subscription to the fund, of the same amount, when
\* the request began (the request carries no idempotency key by which a
\* retry could be told from a new request)
Resubmitted(p) ==
    /\ h[p].pc = "done" /\ h[p].kind = "subscribe" /\ hist[p].solo
    /\ \E s \in hist[p].subs :
           s.fund_id = h[p].fund_id /\ s.is_active /\ s.amount = FloatOf(h[p].amount)

\* C15: a subscribe resubmitted after its commit is answered as the original
\* one was (completed, with the original record) and neither debits the
\* balance again nor inserts a second transactions document.
C15_IdempotentRetry ==
    \A p \in Procs :
        Resubmitted(p) =>
            /\ h[p].result = "completed"
            /\ ~TxWritten(p) /\ ~BalanceWritten(p)

\* ------------------------------------------------- notifications (C16, C17)

\* handler p has committed a subscribe or a cancel
Committed(p) ==
    Ended(p, "subscribe", "completed") \/ Ended(p, "cancel", "completed")

\* the notification service has been handed something for account u
Notified(u) ==
    \/ task.pc # "idle" /\ task.user_id = u
    \/ \E i \in DOMAIN notifications : notifications[i].user_id = u

\* C16: every committed subscribe and every committed cancel is followed,
\* sooner or later, by an event for its account reaching the notification
\* service.
C16_EventAfterCommit ==
    \A p \in Procs : Committed(p) ~> Notified(h[p].user_id)

\* a step of the notification background task
TaskStep == task' # task

\* the task of a notification for a user ends without a delivery
Undelivered == task.pc # "idle" /\ task.user_id \in Users /\ task'.pc = "idle"

\* C17: no step of the notification task changes a balance, a subscription,
\* a transactions document or the handler of a subscribe or cancel; a
\* notification that was not delivered leaves a notifications document of its
\* own with status failed.
C17_DeliveryFailureFrame ==
    [][ /\ TaskStep => UNCHANGED <<store, h, hist>>
        /\ Undelivered =>
               \E i \in DOMAIN notifications' :
                   /\ notifications'[i].user_id = task.user_id
                   /\ notifications'[i].status = "failed"
      ]_vars

\* ------------------------------------------------------ append-only (C19)

\* C19: no step of any handler or task changes or removes a transactions
\* document: the collection only grows at its end, and every document
\* already there keeps its place and all its fields (amount,
\* balance_before, balance_after, status and the rest).
C19_AppendOnly ==
    [][ /\ Len(transactions') >= Len(transactions)
        /\ \A i \in DOMAIN transactions : transactions'[i] = transactions[i]
      ]_vars

\* the ledger holds a subscription, a cancellation after it, and a third
\* document written after both
C19_Witness ==
    /\ Len(transactions) >= 3
    /\ transactions[1].transaction_type = "subscription"
    /\ transactions[2].transaction_type = "cancellation"

\* --------------------------------------------------------- queries (C18, C20)

\* C18: whatever subscribe or cancel of the account runs at the same time,
\* the balance and the total_invested of a get_user_balance response add up
\* to the conserved total of the account, the balance it was registered
\* with.
C18_NoIntermediateState ==
    \A p \in Procs :
        Ended(p, "balance", "ok") =>
            Shown(h[p].user_balance) + Shown(h[p].total_invested)
                = initial_balance * Unit

RECURSIVE Reverse(_)
Reverse(s) == IF s = <<>> THEN <<>> ELSE Append(Reverse(Tail(s)), Head(s))

\* C20: a get_user_transactions response holds the transactions documents
\* of the caller, all of them and no other, the one inserted last first: it
\* is the caller's part of the collection in reverse insertion order, also
\* when the requests that inserted them overlapped.
C20_NewestFirst ==
    \A p \in Procs :
        Ended(p, "transactions", "ok") =>
            h[p].listing = Reverse(TxOf(transactions, h[p].user_id))

\* ------------------------------------------------------ balance query (C21)

\* C21: a get_user_balance response served with no other request in flight
\* carries the stored balance of the caller, and its total_invested is the
\* sum of the amounts of the caller's active subscriptions.
C21_BalanceResponse ==
    Ended(Serial, "balance", "ok") =>
        /\ h[Serial].user_balance = balance[h[Serial].user_id]
        /\ Shown(h[Serial].total_invested) = SumShown(ActiveOf(h[Serial].user_id))

\* ------------------------------------------------------ inactive fund (C22)

\* C22: a subscribe that names a fund of the catalog that is not active ends
\* with FundInactive, one that names no fund of the catalog ends with
\* FundNotFound.
C22_FundInactive ==
    \A p \in Procs :
        (h[p].pc = "done" /\ h[p].kind = "subscribe") =>
            /\ (h[p].fund_id \in DOMAIN funds /\ ~funds[h[p].fund_id].is_active)
                   => h[p].result = "FundInactive"
            /\ h[p].fund_id \notin DOMAIN funds => h[p].result = "FundNotFound"

\* ------------------------------------------------- rate limiter (C23, C29)

\* the times of the admitted requests of u within the minute before t,
\* t itself included
InLastMinute(u, t) ==
    IF u \in DOMAIN requests
    THEN LET Within(r) == r > t - Minute /\ r <= t IN SelectSeq(requests[u], Within)
    ELSE <<>>

\* a step of check_rate_limit that answers 429 to a request of u
Rejects(p, u) ==
    h[p] = Idle /\ h'[p].kind = "limited" /\ h'[p].user_id = u

\* a step of check_rate_limit that lets a request of u through
Admits(p, u) ==
    h[p] = Idle /\ h'[p].pc = "idle" /\ h'[p].user_id = u

\* C23 (state part): for every account and every minute that ends now, at
\* most rate_limit_per_minute of its requests were admitted in it.
RateCap ==
    \A u \in Callers : Len(InLastMinute(u, now)) <= rate_limit_per_minute

\* C23: the cap holds in every minute, and a request that arrives when
\* rate_limit_per_minute admitted ones lie in the minute before is answered
\* 429 before the body of any handler, with the store left as it is.
C23_RateLimitCap ==
    [][ /\ RateCap'
        /\ \A p \in Procs, u \in Callers :
              /\ (h[p] = Idle /\ h'[p] # Idle
                    /\ Len(InLastMinute(u, now)) >= rate_limit_per_minute
                    /\ h'[p].user_id = u)
                     => Rejects(p, u)
              /\ Rejects(p, u) => UNCHANGED <<store, hist>>
      ]_vars

\* an account has used its whole rate and a request of it has been answered
\* 429 next to a stored subscription
C23_Witness ==
    /\ \E u \in Callers : Len(InLastMinute(u, now)) = rate_limit_per_minute
    /\ \E p \in Procs : h[p].pc = "done" /\ h[p].result = "TooManyRequests"
    /\ subscriptions # {}

\* C29: a request of u is admitted exactly when fewer than
\* rate_limit_per_minute admitted requests of u lie strictly within the
\* last minute; a rejected one adds no time to the list of u; and no check
\* of u touches the list of another account.
C29_RejectedNotCounted ==
    [][ \A p \in Procs, u \in Callers :
          /\ Admits(p, u) => Len(InLastMinute(u, now)) < rate_limit_per_minute
          /\ Rejects(p, u) =>
                /\ Len(InLastMinute(u, now)) >= rate_limit_per_minute
                /\ InLastMinute(u, now)' = InLastMinute(u, now)
          /\ (Admits(p, u) \/ Rejects(p, u)) =>
                \A v \in DOMAIN requests \ {u} : requests'[v] = requests[v]
      ]_vars

\* a minute or more into the run a request of u1 has just been let through
\* and fills its rate, while u2 has used its whole rate in the same minute
C29_Witness ==
    /\ now >= Minute
    /\ Admitted(Serial, "u1")
    /\ "u1" \in DOMAIN requests /\ requests["u1"][Len(requests["u1"])] = now
    /\ Len(requests["u1"]) = rate_limit_per_minute
    /\ "u2" \in DOMAIN requests /\ Len(InLastMinute("u2", now)) = rate_limit_per_minute

\* ------------------------------------------- concurrent duplicates (C24, C25)

\* the transactions documents of the given type that account u has for fund f
RecordsOf(u, f, type) ==
    {i \in DOMAIN transactions :
        /\ transactions[i].user_id = u
        /\ transactions[i].fund_id = f
        /\ transactions[i].transaction_type = type}

\* C24: with no store error and no cancel, once the subscribes of an account
\* have ended, also those that ran at the same time for the same fund, the
\* account has at most one subscription document per fund in transactions,
\* and a subscribe that lost to another one has ended with
\* DuplicateSubscription.
C24_ConcurrentSubscribe ==
    (faults = 0 /\ Quiet) =>
        \A u \in Users :
            /\ \A f \in FundIds :
                  RecordsOf(u, f, "cancellation") = {} =>
                      Cardinality(RecordsOf(u, f, "subscription")) <= 1
            /\ \A p \in Procs :
                  ~Ended(p, "subscribe", "PersistenceFailure")

\* C25: with no store error, once the requests of an account have ended,
\* also cancels that ran at the same time for the same fund, every
\* cancellation document in transactions answers to a subscription document
\* of its own: there are never more cancellations than subscriptions of a
\* fund (the cancel that lost ended with SubscriptionNotFound and wrote
\* nothing).
C25_ConcurrentCancel ==
    (faults = 0 /\ Quiet) =>
        \A u \in Users, f \in FundIds :
            Cardinality(RecordsOf(u, f, "cancellation"))
                <= Cardinality(RecordsOf(u, f, "subscription"))

\* ------------------------------------------------------ balance frame (C26)

\* the step is the balance write of a subscribe or cancel of account u
BalanceWrite(u) ==
    \E p \in Procs :
        h[p].user_id = u /\ h[p].pc = "update_balance" /\ h'[p].pc = "write_sub"

\* C26: the stored balance of an account changes only in the balance write
\* of a subscribe or cancel of that account, and only a request that
\* succeeds leaves it changed: a subscribe or cancel that ends in an error
\* leaves the balance it found.  No profile update, notification step or
\* query changes it.
C26_BalanceFrame ==
    [][ /\ \A u \in Users : balance'[u] # balance[u] => BalanceWrite(u)
        /\ \A p \in Procs :
              (h'[p].pc = "done" /\ h'[p].result # "completed" /\ hist'[p].solo
                 /\ h'[p].kind \in {"subscribe", "cancel"})
                  => balance'[h'[p].user_id] = hist'[p].balance
      ]_vars

\* ------------------------------------------------------ re-subscription (C27)

\* account u has cancelled a subscription to fund f
HasCancelled(u, f) == RecordsOf(u, f, "cancellation") # {}

\* C27: with no store error and requests served one after the other, a
\* successful cancel leaves no user_subscriptions document of the account for
\* the fund, active or not, and a later subscribe to that fund that meets the
\* minimum and the balance succeeds: the unique index does not stand in its
\* way.
C27_Resubscribe ==
    /\ Ended(Serial, "cancel", "completed") =>
           \A s \in subscriptions :
               ~(s.user_id = h[Serial].user_id /\ s.fund_id = h[Serial].fund_id)
    /\ (/\ h[Serial].pc = "done" /\ h[Serial].kind = "subscribe"
        /\ HasCancelled(h[Serial].user_id, h[Serial].fund_id)
        /\ ~InvalidSubscribe(Serial))
           => h[Serial].result = "completed"

\* a subscribe to a fund the account had cancelled before has succeeded
C27_Witness ==
    /\ Ended(Serial, "subscribe", "completed")
    /\ HasCancelled(h[Serial].user_id, h[Serial].fund_id)
    /\ \E s \in subscriptions :
           s.user_id = h[Serial].user_id /\ s.fund_id = h[Serial].fund_id /\ s.is_active

\* ------------------------------------------------------ inactive fund (C28)

\* the subscriptions to the fund of p's request that the account had when
\* the request began
Held(p) == {s \in hist[p].subs : s.fund_id = h[p].fund_id /\ s.is_active}

\* C28: with no store error and requests served one after the other, a
\* cancel of an active subscription to a fund that is no longer active
\* succeeds: the subscription is gone, the balance is the balance before
\* plus the amount subscribed, and one cancellation document with that
\* amount is added to transactions.
C28_CancelInactiveFund ==
    LET p == Serial
        f == h[p].fund_id
    IN  (/\ h[p].pc = "done" /\ h[p].kind = "cancel"
         /\ f \in DOMAIN funds /\ ~funds[f].is_active
         /\ Held(p) # {})
            => /\ h[p].result = "completed"
               /\ ActiveSubs(h[p].user_id, f) = {}
               /\ Len(NewTx(p)) = 1
               /\ NewTx(p)[1].transaction_type = "cancellation"
               /\ \A s \in Held(p) :
                     /\ NewTx(p)[1].amount = s.amount
                     /\ Shown(balance[h[p].user_id])
                            = Shown(hist[p].balance) + Shown(s.amount)

\* ------------------------------------------------------ seeded catalog (C30)

\* the minimum the seed gives fund f
SeededMinimum(f) == (CHOOSE d \in INITIAL_FUNDS : d.id = f).min_amount

\* C30: on the catalog seeded at startup, get_fund, subscribe and cancel
\* find every seeded fund by its id, and subscribe turns an amount down as
\* below the minimum exactly when it is below the seeded minimum of the fund.
C30_SeededFundsFound ==
    \A p \in Procs :
        (h[p].pc = "done" /\ h[p].kind \in {"get_fund", "subscribe", "cancel"}
           /\ h[p].fund_id \in SeededIds)
            => /\ h[p].result # "FundNotFound"
               /\ h[p].kind = "subscribe" =>
                     (h[p].result = "BelowMinimumInvestment"
                        <=> h[p].amount < SeededMinimum(h[p].fund_id))

=============================================================================
